---- MODULE Spec2Model ----
(***************************************************************************)
(* Model of adafruit_airlift/esp32.py: class ESP32, the controller of an   *)
(* ESP32 co-processor (mode flag, reset line, strap pins, UART).           *)
(*                                                                         *)
(* One call of a public method runs at a time (the library is single-      *)
(* threaded); a call that resets the device is split at the statements of  *)
(* _reset_esp32 so that the device, which runs concurrently with the host, *)
(* can put bytes into the UART receive buffer between them.                *)
(***************************************************************************)
EXTENDS Integers, Sequences, FiniteSets, TLC

VARIABLES
    mode,            \* self._mode
    reset_high,      \* self._reset_high
    reset,           \* self._reset          (DigitalInOut)
    gpio0_and_rts,   \* self._gpio0_and_rts  (DigitalInOut)
    busy_and_cts,    \* self._busy_and_cts   (DigitalInOut)
    chip_select,     \* self._chip_select    (DigitalInOut)
    uart,            \* receive buffer of self._uart: bytes the device has sent
    pc,              \* position of the running call ("idle": no call runs)
    frame,           \* the running call: method, its debug argument, mode at entry
    startup_message, \* local of _reset_esp32
    events,          \* pin writes and UART reads the running call has made
    last,            \* the most recent completed call
    prev,            \* the completed call before it
    hist             \* what has happened since construction (history only)

vars == <<mode, reset_high, reset, gpio0_and_rts, busy_and_cts, chip_select,
          uart, pc, frame, startup_message, events, last, prev, hist>>

hw == <<mode, reset_high, reset, gpio0_and_rts, busy_and_cts, chip_select, uart>>

-----------------------------------------------------------------------------
(* Bounds *)

\* Most bytes that are in the receive buffer or the banner at one time.
MaxBanner == 2

\* The count of strap-and-reset sequences stops at this value.
MaxCount == 2

-----------------------------------------------------------------------------
(* Constants of the class *)

NOT_IN_USE == 0
BLUETOOTH == 1
WIFI == 2

Modes == {NOT_IN_USE, BLUETOOTH, WIFI}

\* Bytes the device may send: "A" (0x41), and 0xC3, the lead byte of a two-byte
\* sequence: no banner over these bytes that holds 0xC3 is UTF-8, since no
\* continuation byte can follow it.
Bytes == {65, 195}

\* The attributes __init__ assigns on the instance.
InstanceAttrs ==
    {"_mode", "_spi", "_reset_high", "_reset", "_gpio0_and_rts",
     "_busy_and_cts", "_chip_select", "_uart"}

-----------------------------------------------------------------------------
(* Collaborators: digitalio, bytes.decode, _bleio *)

\* digitalio.DigitalInOut(pin): a new pin object is an input; it drives nothing.
DigitalInOut == [direction |-> "input", value |-> FALSE]

\* DigitalInOut.switch_to_output(value)
switch_to_output(value) == [direction |-> "output", value |-> value]

\* bytes.decode("utf-8") succeeds: one-byte and two-byte sequences; every
\* other lead byte is rejected (Bytes holds no three- or four-byte lead).
RECURSIVE Utf8Valid(_)
Utf8Valid(s) ==
    IF s = <<>> THEN TRUE
    ELSE IF s[1] < 128 THEN Utf8Valid(Tail(s))
    ELSE IF s[1] >= 194 /\ s[1] <= 223
         THEN /\ Len(s) >= 2
              /\ s[2] >= 128 /\ s[2] <= 191
              /\ Utf8Valid(Tail(Tail(s)))
    ELSE FALSE

\* Outcomes of a call: a normal return, or the exception raised.
Returned == [exc |-> "none", msg |-> ""]
ModeConflict == [exc |-> "RuntimeError", msg |-> "ESP32 is in Wifi mode"]
NoStartupResponse ==
    [exc |-> "RuntimeError", msg |-> "ESP32 did not respond with a startup message"]
GarbledStartup == [exc |-> "RuntimeError", msg |-> "Garbled ESP32 startup message"]
NotImplemented == [exc |-> "NotImplementedError", msg |-> ""]
AttributeError(name) == [exc |-> "AttributeError", msg |-> name]

\* Values a call hands back.
NoHandle == [obj |-> "none", uart |-> "", rts |-> "", cts |-> ""]
\* _bleio.adapter, the module's adapter object
BleioAdapter == [obj |-> "_bleio.adapter", uart |-> "", rts |-> "", cts |-> ""]
\* _bleio.Adapter(uart=..., rts=..., cts=...)
BleioAdapterNew(u, r, c) == [obj |-> "_bleio.Adapter", uart |-> u, rts |-> r, cts |-> c]

\* self.<name>: the attribute, or AttributeError when __init__ never set it.
HasAttr(name) == name \in InstanceAttrs

\* Line 111: the arguments are evaluated left to right, then the adapter is built.
AdapterArgs == <<"_uart", "_gpio0_and_rts", "_cts">>

MissingArgs == {i \in 1..Len(AdapterArgs) : ~HasAttr(AdapterArgs[i])}

FirstMissing == CHOOSE i \in MissingArgs : \A j \in MissingArgs : i <= j

ConstructAdapterOutcome ==
    IF MissingArgs = {} THEN Returned ELSE AttributeError(AdapterArgs[FirstMissing])

ConstructAdapterHandle ==
    IF MissingArgs = {}
    THEN BleioAdapterNew(AdapterArgs[1], AdapterArgs[2], AdapterArgs[3])
    ELSE NoHandle

-----------------------------------------------------------------------------
(* Call records *)

NoFrame == [op |-> "none", debug |-> FALSE, mode0 |-> NOT_IN_USE]

NoCall ==
    [op |-> "none", debug |-> FALSE, mode0 |-> NOT_IN_USE, banner |-> <<>>,
     outcome |-> Returned, handle |-> NoHandle, events |-> <<>>]

Completed(f, banner, outcome, handle, evs) ==
    [op |-> f.op, debug |-> f.debug, mode0 |-> f.mode0, banner |-> banner,
     outcome |-> outcome, handle |-> handle, events |-> evs]

\* The running call ends: it becomes the most recent completed call.
Finish(f, banner, outcome, handle, evs) ==
    /\ pc' = "idle"
    /\ frame' = NoFrame
    /\ startup_message' = <<>>
    /\ events' = <<>>
    /\ prev' = last
    /\ last' = Completed(f, banner, outcome, handle, evs)

\* History of the controller: how many times start_bluetooth has begun its
\* strap-and-reset sequence (lines 92-100), whether the reset line has been
\* pulsed, and whether a reset run by start_bluetooth gave a non-empty banner.
NoHistory == [start_resets |-> 0, pulsed |-> FALSE, answered |-> FALSE]

Count(n) == IF n < MaxCount THEN n + 1 ELSE n

-----------------------------------------------------------------------------
(* ESP32.__init__ *)

InitMode == NOT_IN_USE

\* Variant: the pin is initialised to the released level, not self._reset_high.
InitResetValueReleased(rh) == ~rh

\* switch_to_output(reset_high): the level the reset pin is given at construction.
InitResetValue(rh) == rh

Init ==
    /\ mode = InitMode
    /\ reset_high \in BOOLEAN
    /\ reset = switch_to_output(InitResetValue(reset_high))
    /\ gpio0_and_rts = DigitalInOut
    /\ busy_and_cts = DigitalInOut
    /\ chip_select = DigitalInOut
    /\ uart = <<>>
    /\ pc = "idle"
    /\ frame = NoFrame
    /\ startup_message = <<>>
    /\ events = <<>>
    /\ last = NoCall
    /\ prev = NoCall
    /\ hist = NoHistory

-----------------------------------------------------------------------------
(* ESP32._reset_esp32 *)

\* The level _reset_esp32 drives first, for 100 ms.
ResetPulseValue(rh) == rh

\* Variant: the second write repeats the first, the line is never released.
ResetReleaseValueStuck(rh) == rh

\* The level _reset_esp32 leaves the line at.
ResetReleaseValue(rh) == ~rh

\* line 64: self._reset.value = self._reset_high; then sleep(0.1)
ResetAssert ==
    /\ pc = "reset_assert"
    /\ reset' = [reset EXCEPT !.value = ResetPulseValue(reset_high)]
    /\ events' = Append(events, "reset_pulse")
    /\ hist' = [hist EXCEPT !.pulsed = TRUE]
    /\ pc' = "reset_release"
    /\ UNCHANGED <<mode, reset_high, gpio0_and_rts, busy_and_cts, chip_select,
                   uart, frame, startup_message, last, prev>>

\* line 66: self._reset.value = not self._reset_high; then sleep(1.0);
\* line 71: startup_message = b""
ResetRelease ==
    /\ pc = "reset_release"
    /\ reset' = [reset EXCEPT !.value = ResetReleaseValue(reset_high)]
    /\ events' = Append(events, "reset_release")
    /\ startup_message' = <<>>
    /\ pc' = "drain"
    /\ UNCHANGED <<mode, reset_high, gpio0_and_rts, busy_and_cts, chip_select,
                   uart, frame, last, prev, hist>>

\* self._uart.in_waiting
in_waiting == Len(uart)

\* Variant: "if" for "while", a single pass: nothing is read after the first read.
LoopContinuesOnce == in_waiting # 0 /\ startup_message = <<>>

\* line 72: while self._uart.in_waiting
LoopContinues == in_waiting # 0

\* lines 72-75, one turn of the loop: in_waiting is non-zero, read() takes
\* what the buffer holds (timeout=0) and the bytes are added to the banner.
DrainRead ==
    /\ pc = "drain"
    /\ LoopContinues
    /\ startup_message' = startup_message \o uart
    /\ uart' = <<>>
    /\ events' = Append(events, "uart_read")
    /\ UNCHANGED <<mode, reset_high, reset, gpio0_and_rts, busy_and_cts,
                   chip_select, pc, frame, last, prev, hist>>

\* line 72 with in_waiting zero, line 77: return startup_message
DrainDone ==
    /\ pc = "drain"
    /\ ~LoopContinues
    /\ pc' = "after_reset"
    /\ UNCHANGED <<mode, reset_high, reset, gpio0_and_rts, busy_and_cts,
                   chip_select, uart, frame, startup_message, events, last, prev, hist>>

-----------------------------------------------------------------------------
(* ESP32.start_bluetooth *)

\* Variant: the early return for Bluetooth mode is missing.
AlreadyBluetoothUnchecked(m) == FALSE

\* line 88
AlreadyBluetooth(m) == m = BLUETOOTH

\* Variant: the Wifi test is missing.
InWifiUnchecked(m) == FALSE

\* line 90
InWifi(m) == m = WIFI

\* Variant: the wrong mode constant is stored.
StartedModeWifi == WIFI

\* Variant: the mode is left alone until the start has succeeded.
StartedModeUncommitted == NOT_IN_USE

\* line 92
StartedMode == BLUETOOTH

\* line 95: gpio0 high, the ESP32 boots from SPI flash
Gpio0Strap == TRUE

\* Variant: chip select is left high, which selects the Wifi firmware path.
ChipSelectStrapHigh == TRUE

\* line 98: chip select low chooses Bluetooth mode
ChipSelectStrap == FALSE

\* lines 88-98
StartBluetooth(debug) ==
    /\ pc = "idle"
    /\ LET f == [op |-> "start_bluetooth", debug |-> debug, mode0 |-> mode] IN
       IF AlreadyBluetooth(mode) THEN
           /\ Finish(f, <<>>, Returned, BleioAdapter, <<>>)
           /\ UNCHANGED <<hw, hist>>
       ELSE IF InWifi(mode) THEN
           /\ Finish(f, <<>>, ModeConflict, NoHandle, <<>>)
           /\ UNCHANGED <<hw, hist>>
       ELSE
           /\ mode' = StartedMode
           /\ gpio0_and_rts' = switch_to_output(Gpio0Strap)
           /\ chip_select' = switch_to_output(ChipSelectStrap)
           /\ events' = <<"gpio0_and_rts", "chip_select">>
           /\ frame' = f
           /\ hist' = [hist EXCEPT !.start_resets = Count(@)]
           /\ pc' = "reset_assert"
           /\ UNCHANGED <<reset_high, reset, busy_and_cts, uart,
                          startup_message, last, prev>>

\* Variant: the banner is compared with None, which b"" is not.
NoBannerIsNone(msg) == FALSE

\* line 101
NoBanner(msg) == msg = <<>>

\* lines 103-107
DecodeFails(debug, msg) == debug /\ ~Utf8Valid(msg)

\* lines 101-111, after _reset_esp32 has returned
StartBluetoothFinish ==
    /\ pc = "after_reset"
    /\ frame.op = "start_bluetooth"
    /\ IF NoBanner(startup_message) THEN
           Finish(frame, startup_message, NoStartupResponse, NoHandle, events)
       ELSE IF DecodeFails(frame.debug, startup_message) THEN
           Finish(frame, startup_message, GarbledStartup, NoHandle, events)
       ELSE
           Finish(frame, startup_message, ConstructAdapterOutcome,
                  ConstructAdapterHandle,
                  IF frame.debug THEN Append(events, "print") ELSE events)
    /\ hist' = [hist EXCEPT !.answered = @ \/ startup_message # <<>>]
    /\ UNCHANGED hw

-----------------------------------------------------------------------------
(* ESP32.stop_bluetooth *)

\* Variant: the test is inverted.
StopIsNoopInverted(m) == m = BLUETOOTH

\* line 115
StopIsNoop(m) == m # BLUETOOTH

\* lines 115-117
StopBluetooth ==
    /\ pc = "idle"
    /\ LET f == [op |-> "stop_bluetooth", debug |-> FALSE, mode0 |-> mode] IN
       IF StopIsNoop(mode) THEN
           /\ Finish(f, <<>>, Returned, NoHandle, <<>>)
           /\ UNCHANGED <<hw, hist>>
       ELSE
           /\ frame' = f
           /\ events' = <<>>
           /\ pc' = "reset_assert"
           /\ UNCHANGED <<mode, reset_high, reset, gpio0_and_rts, busy_and_cts,
                          chip_select, uart, startup_message, last, prev, hist>>

\* Variant: the banner is checked as start_bluetooth checks it.
StopOutcomeChecked(msg) == IF msg = <<>> THEN NoStartupResponse ELSE Returned

\* line 117: the value of self._reset_esp32() is not used
StopOutcome(msg) == Returned

\* line 117: the banner _reset_esp32 returns is dropped
StopBluetoothFinish ==
    /\ pc = "after_reset"
    /\ frame.op = "stop_bluetooth"
    /\ Finish(frame, startup_message, StopOutcome(startup_message), NoHandle, events)
    /\ UNCHANGED <<hw, hist>>

-----------------------------------------------------------------------------
(* ESP32.start_wifi, ESP32.stop_wifi *)

\* Variant: the method bodies are "pass".
WifiOutcomePass == Returned

\* lines 121, 125
WifiOutcome == NotImplemented

StartWifi ==
    /\ pc = "idle"
    /\ Finish([op |-> "start_wifi", debug |-> FALSE, mode0 |-> mode],
              <<>>, WifiOutcome, NoHandle, <<>>)
    /\ UNCHANGED <<hw, hist>>

StopWifi ==
    /\ pc = "idle"
    /\ Finish([op |-> "stop_wifi", debug |-> FALSE, mode0 |-> mode],
              <<>>, WifiOutcome, NoHandle, <<>>)
    /\ UNCHANGED <<hw, hist>>

-----------------------------------------------------------------------------
(* The device *)

\* The ESP32 runs while its reset line is at the released level.
DeviceRunning == reset.value = ResetReleaseValue(reset_high)

\* The device writes a byte to its UART: it lands in the host's receive buffer.
DeviceSend(b) ==
    /\ DeviceRunning
    /\ Len(uart) + Len(startup_message) < MaxBanner
    /\ uart' = Append(uart, b)
    /\ UNCHANGED <<mode, reset_high, reset, gpio0_and_rts, busy_and_cts,
                   chip_select, pc, frame, startup_message, events, last, prev, hist>>

-----------------------------------------------------------------------------

Next ==
    \/ \E debug \in BOOLEAN : StartBluetooth(debug)
    \/ StartBluetoothFinish
    \/ StopBluetooth
    \/ StopBluetoothFinish
    \/ StartWifi
    \/ StopWifi
    \/ ResetAssert
    \/ ResetRelease
    \/ DrainRead
    \/ DrainDone
    \/ \E b \in Bytes : DeviceSend(b)

Spec == Init /\ [][Next]_vars

\* A controller whose mode flag a test harness has set to WIFI after
\* construction (the public methods never set it).
InitWifi ==
    /\ mode \in {InitMode, WIFI}
    /\ reset_high \in BOOLEAN
    /\ reset = switch_to_output(InitResetValue(reset_high))
    /\ gpio0_and_rts = DigitalInOut
    /\ busy_and_cts = DigitalInOut
    /\ chip_select = DigitalInOut
    /\ uart = <<>>
    /\ pc = "idle"
    /\ frame = NoFrame
    /\ startup_message = <<>>
    /\ events = <<>>
    /\ last = NoCall
    /\ prev = NoCall
    /\ hist = NoHistory

SpecWifi == InitWifi /\ [][Next]_vars

-----------------------------------------------------------------------------
(* Properties *)

\* No call runs and `last` is the call that has just returned.
Idle == pc = "idle"

\* The call record is a start_bluetooth that the documented behaviour lets
\* succeed: not from Wifi mode and, when it reset the device, with a banner
\* that is not empty and that decodes when debug is set.
ShouldSucceed(c) ==
    /\ c.op = "start_bluetooth"
    /\ c.mode0 # WIFI
    /\ c.mode0 = NOT_IN_USE => /\ c.banner # <<>>
                               /\ c.debug => Utf8Valid(c.banner)

\* C1: of two start_bluetooth calls in a row (no stop_bluetooth between them),
\* the second returns the adapter handle the first returned and makes no pin
\* write and no UART read.
C1_SecondStartSameHandle ==
    (prev.op = "start_bluetooth" /\ last.op = "start_bluetooth" /\ ShouldSucceed(prev))
        => /\ prev.outcome = Returned
           /\ prev.handle # NoHandle
           /\ last.outcome = Returned
           /\ last.handle = prev.handle
           /\ last.events = <<>>

\* C2: start_bluetooth from NOT_IN_USE with a non-empty banner and debug off
\* returns an adapter built over the UART with rts = gpio0 pin, cts = busy pin.
C2_StartReturnsAdapter ==
    (/\ last.op = "start_bluetooth"
     /\ last.mode0 = NOT_IN_USE
     /\ last.banner # <<>>
     /\ ~last.debug)
        => /\ last.outcome = Returned
           /\ last.handle = BleioAdapterNew("_uart", "_gpio0_and_rts", "_busy_and_cts")

\* C3: after stop_bluetooth in Bluetooth mode the mode is NOT_IN_USE, and a
\* start_bluetooth that follows it runs the strap-and-reset sequence.
C3_StopLeavesNotInUse ==
    /\ (Idle /\ last.op = "stop_bluetooth" /\ last.mode0 = BLUETOOTH)
           => mode = NOT_IN_USE
    /\ (/\ prev.op = "stop_bluetooth" /\ prev.mode0 = BLUETOOTH
        /\ last.op = "start_bluetooth")
           => last.events # <<>>

\* C4: start_bluetooth from NOT_IN_USE whose reset drained zero bytes from the
\* UART raises the no-startup-message error and returns no handle.
C4_EmptyBannerFails ==
    (last.op = "start_bluetooth" /\ last.mode0 = NOT_IN_USE /\ last.banner = <<>>)
        => /\ last.outcome = NoStartupResponse
           /\ last.handle = NoHandle

C4_Witness ==
    /\ last.op = "start_bluetooth"
    /\ last.mode0 = NOT_IN_USE
    /\ last.banner = <<>>
    /\ "reset_release" \in {last.events[i] : i \in 1..Len(last.events)}
    /\ last.outcome = NoStartupResponse

\* C5: after a start_bluetooth that failed for want of a banner or for a
\* garbled one, the next start_bluetooth runs the whole sequence again: it
\* drives the strap pins and resets the device.
C5_RetryRunsSequence ==
    (/\ prev.op = "start_bluetooth"
     /\ prev.outcome \in {NoStartupResponse, GarbledStartup}
     /\ last.op = "start_bluetooth")
        => /\ Len(last.events) >= 4
           /\ SubSeq(last.events, 1, 4) =
                  <<"gpio0_and_rts", "chip_select", "reset_pulse", "reset_release">>

\* C6: start_bluetooth from NOT_IN_USE with a non-empty banner that is not
\* UTF-8 raises the garbled-message error with debug on, and returns an adapter
\* handle with debug off.
C6_GarbledOnlyWithDebug ==
    (/\ last.op = "start_bluetooth"
     /\ last.mode0 = NOT_IN_USE
     /\ last.banner # <<>>
     /\ ~Utf8Valid(last.banner))
        => IF last.debug
           THEN last.outcome = GarbledStartup /\ last.handle = NoHandle
           ELSE last.outcome = Returned /\ last.handle # NoHandle

\* C7: a start_bluetooth call made in Wifi mode raises the Wifi-mode error in
\* that same step and leaves the mode, every pin and the UART as they were.
C7_WifiRejected ==
    [][((\E debug \in BOOLEAN : StartBluetooth(debug)) /\ mode = WIFI)
          => /\ pc' = "idle"
             /\ last'.op = "start_bluetooth"
             /\ last'.outcome = ModeConflict
             /\ last'.handle = NoHandle
             /\ last'.events = <<>>
             /\ UNCHANGED hw]_vars

C7_Witness ==
    /\ Idle
    /\ last.op = "start_bluetooth"
    /\ last.mode0 = WIFI
    /\ last.outcome = ModeConflict
    /\ mode = WIFI

\* C8: a stop_bluetooth call made in a mode other than BLUETOOTH returns in
\* that same step without an error and leaves the mode, the reset line, the
\* strap pins and the UART buffer as they were.
C8_StopNoop ==
    [][(StopBluetooth /\ mode # BLUETOOTH)
          => /\ pc' = "idle"
             /\ last'.op = "stop_bluetooth"
             /\ last'.outcome = Returned
             /\ last'.events = <<>>
             /\ UNCHANGED hw]_vars

C8_Witness ==
    /\ Idle
    /\ last.op = "stop_bluetooth"
    /\ last.mode0 = NOT_IN_USE
    /\ last.outcome = Returned
    /\ mode = NOT_IN_USE

\* C9: every start_wifi and stop_wifi call raises NotImplementedError and
\* leaves the mode, every pin and the UART as they were.
C9_WifiNotImplemented ==
    [][(StartWifi \/ StopWifi)
          => /\ pc' = "idle"
             /\ last'.op \in {"start_wifi", "stop_wifi"}
             /\ last'.outcome = NotImplemented
             /\ last'.handle = NoHandle
             /\ last'.events = <<>>
             /\ UNCHANGED hw]_vars

C9_Witness ==
    /\ Idle
    /\ prev.op = "start_wifi" /\ prev.outcome = NotImplemented
    /\ last.op = "stop_wifi" /\ last.outcome = NotImplemented
    /\ mode = BLUETOOTH

\* The controller has been constructed and no method has been called yet.
Constructed == Idle /\ last.op = "none"

\* C10 as stated: after construction the mode is NOT_IN_USE and the reset pin
\* is an output at the level opposite to the one _reset_esp32 pulses.
C10_ResetInactiveAfterInit ==
    Constructed
        => /\ mode = NOT_IN_USE
           /\ reset.direction = "output"
           /\ reset.value # ResetPulseValue(reset_high)

\* C10 amended: after construction, for both values of reset_high, the mode is
\* NOT_IN_USE and the reset pin is an output at reset_high, the level that
\* _reset_esp32 drives during its 100 ms pulse: the device is held in reset.
C10_ResetAssertedAfterInit ==
    Constructed
        => /\ mode = NOT_IN_USE
           /\ reset.direction = "output"
           /\ reset.value = reset_high
           /\ reset.value = ResetPulseValue(reset_high)
           /\ ~DeviceRunning

C10_Witness ==
    /\ Constructed
    /\ reset_high
    /\ reset = [direction |-> "output", value |-> TRUE]

\* The running call is inside _reset_esp32 or has just come back from it.
InReset == pc \in {"reset_assert", "reset_release", "drain", "after_reset"}

\* C11: for both values of reset_high, _reset_esp32 first drives the reset line
\* to reset_high (the active level), then to its opposite; the line is at the
\* opposite level from then on, through the return, and no step outside the
\* two writes of _reset_esp32 changes it.
C11_ResetPulseThenRelease ==
    [][/\ (pc = "reset_assert" /\ pc' # pc)
            => /\ pc' = "reset_release"
               /\ reset'.value = reset_high
       /\ (pc = "reset_release" /\ pc' # pc)
            => /\ reset.value = reset_high
               /\ reset'.value = ~reset_high
       /\ pc' \in {"drain", "after_reset"} => reset'.value = ~reset_high
       /\ (pc \in {"drain", "after_reset"} /\ pc' = "idle")
            => reset'.value = ~reset_high
       /\ reset' # reset => pc \in {"reset_assert", "reset_release"}
       /\ reset'.direction = "output"]_vars

C11_Witness ==
    /\ pc = "after_reset"
    /\ frame.op = "stop_bluetooth"
    /\ reset_high
    /\ reset.value = FALSE
    /\ events = <<"reset_pulse", "reset_release">>

\* C12: after a start_bluetooth from NOT_IN_USE that raised the
\* no-startup-message or the garbled-message error, the mode is BLUETOOTH.
C12_FailedStartKeepsBluetooth ==
    (/\ Idle
     /\ last.op = "start_bluetooth"
     /\ last.mode0 = NOT_IN_USE
     /\ last.outcome \in {NoStartupResponse, GarbledStartup})
        => mode = BLUETOOTH

C12_Witness ==
    /\ Idle
    /\ last.op = "start_bluetooth"
    /\ last.mode0 = NOT_IN_USE
    /\ last.outcome = GarbledStartup
    /\ last.banner = <<195>>
    /\ mode = BLUETOOTH

\* C13: in a start_bluetooth from NOT_IN_USE the strap pins are written before
\* the reset line: gpio0/RTS is an output at high and chip select an output at
\* low before the reset pulse begins, while it lasts and when it is released.
C13_StrapBeforeReset ==
    (frame.op = "start_bluetooth" /\ InReset)
        => /\ gpio0_and_rts = [direction |-> "output", value |-> TRUE]
           /\ chip_select = [direction |-> "output", value |-> FALSE]
           /\ Len(events) >= 2
           /\ SubSeq(events, 1, 2) = <<"gpio0_and_rts", "chip_select">>
           /\ \A i \in 1..2 : events[i] \notin {"reset_pulse", "reset_release"}

C13_Witness ==
    /\ frame.op = "start_bluetooth"
    /\ pc = "drain"
    /\ events = <<"gpio0_and_rts", "chip_select", "reset_pulse", "reset_release">>
    /\ reset.value = ~reset_high
    /\ gpio0_and_rts.value
    /\ ~chip_select.value

\* The UART reads the running call has made.
UartReads(evs) == Cardinality({i \in 1..Len(evs) : evs[i] = "uart_read"})

\* C14 as stated: the drain of _reset_esp32 is a single pass, it reads the UART
\* at most once however the device keeps sending.
C14_SinglePassDrain == UartReads(events) <= 1 /\ UartReads(last.events) <= 1

\* C14 amended: the drain reads again as long as the UART holds bytes. It
\* leaves the loop only in a step that finds the buffer empty; every turn of
\* the loop takes at least one byte and adds what it took to the banner, so the
\* drain makes no more reads than the device has sent bytes.
C14_DrainUntilEmpty ==
    [][/\ (pc = "drain" /\ pc' = "after_reset")
            => /\ uart = <<>>
               /\ UNCHANGED <<uart, startup_message>>
       /\ (pc = "drain" /\ events' # events)
            => /\ uart # <<>>
               /\ pc' = "drain"
               /\ startup_message' = startup_message \o uart
               /\ Len(startup_message') > Len(startup_message)
               /\ uart' = <<>>
       /\ pc' = "drain" => UartReads(events') <= Len(startup_message')]_vars

C14_Witness ==
    /\ pc = "after_reset"
    /\ UartReads(events) = 2
    /\ startup_message = <<65, 195>>
    /\ uart = <<>>

\* C15: no step takes the mode from BLUETOOTH to WIFI or from WIFI to
\* BLUETOOTH, and the mode is always one of NOT_IN_USE, BLUETOOTH, WIFI.
C15_NoDirectSwitch ==
    [][/\ ~(mode = BLUETOOTH /\ mode' = WIFI)
       /\ ~(mode = WIFI /\ mode' = BLUETOOTH)
       /\ mode \in Modes
       /\ mode' \in Modes]_vars

C15_Witness ==
    /\ Idle
    /\ mode = WIFI
    /\ last.op = "start_bluetooth"
    /\ last.mode0 = WIFI
    /\ prev.op = "stop_bluetooth"

\* C16: on a freshly constructed controller no sequence of start_bluetooth,
\* stop_bluetooth, start_wifi and stop_wifi calls makes the mode WIFI, and no
\* start_bluetooth call raises the Wifi-mode error.
C16_WifiUnreachable ==
    /\ mode # WIFI
    /\ frame.mode0 # WIFI
    /\ last.mode0 # WIFI
    /\ last.outcome # ModeConflict
    /\ prev.outcome # ModeConflict

C16_Witness ==
    /\ Idle
    /\ mode = BLUETOOTH
    /\ prev.op = "start_wifi"
    /\ last.op = "start_bluetooth"
    /\ last.outcome = Returned

\* C17: a start_bluetooth call returns an adapter handle only if a reset run by
\* start_bluetooth on this controller has given a non-empty banner.
C17_HandleOnlyIfAnswered ==
    (last.op = "start_bluetooth" /\ last.handle # NoHandle) => hist.answered

\* C18: start_bluetooth begins its strap-and-reset sequence at most once in the
\* life of a controller, and every reset pulse but the first is driven by
\* stop_bluetooth.
C18_StartResetsOnce ==
    [][/\ hist'.start_resets <= 1
       /\ (pc = "reset_assert" /\ pc' = "reset_release" /\ hist.pulsed)
            => frame.op = "stop_bluetooth"
       /\ (pc = "reset_assert" /\ pc' = "reset_release" /\ frame.op = "start_bluetooth")
            => ~hist.pulsed /\ hist.start_resets = 1]_vars

C18_Witness ==
    /\ Idle
    /\ hist.start_resets = 1
    /\ hist.pulsed
    /\ prev.op = "stop_bluetooth"
    /\ prev.events = <<"reset_pulse", "reset_release">>
    /\ last.op = "start_bluetooth"
    /\ last.events = <<>>

\* C19: a stop_bluetooth call made in BLUETOOTH mode runs _reset_esp32 and
\* returns without an error whatever the banner is (empty, not UTF-8), and no
\* step of it changes gpio0/RTS or chip select.
C19_StopResetsAndReturns ==
    [][/\ (last' # last /\ last'.op = "stop_bluetooth" /\ last'.mode0 = BLUETOOTH)
            => /\ last'.outcome = Returned
               /\ last'.handle = NoHandle
               /\ Len(last'.events) >= 2
               /\ SubSeq(last'.events, 1, 2) = <<"reset_pulse", "reset_release">>
               /\ pc = "after_reset"
       /\ (frame.op = "stop_bluetooth" \/ frame'.op = "stop_bluetooth")
            => UNCHANGED <<gpio0_and_rts, chip_select>>]_vars

C19_Witness ==
    /\ Idle
    /\ last.op = "stop_bluetooth"
    /\ last.mode0 = BLUETOOTH
    /\ last.banner = <<195>>
    /\ last.outcome = Returned
    /\ prev.op = "stop_bluetooth"
    /\ prev.mode0 = BLUETOOTH
    /\ prev.banner = <<>>
    /\ prev.outcome = Returned

====
